---------------------------- MODULE Spec2Model ----------------------------
(***************************************************************************)
(* ColorValue (src/ColorValue.js): a colour is decoded once, at            *)
(* construction, into four stored channels r, g, b, a, and re-encoded on   *)
(* demand by the getters Integer, Hex, CSSRGB, CSSHSL, FloatVector, RGBA   *)
(* and HSL.                                                                *)
(*                                                                         *)
(* JavaScript numbers are modelled as exact rationals <<n, d>> (d > 0, in  *)
(* lowest terms) with NaN as <<0, 0>>; strings are sequences of one-       *)
(* character strings, so that parsing and formatting are computed.         *)
(*                                                                         *)
(* Arithmetic on rationals is exact, where the engine's doubles round.     *)
(* The two differ only in Math.round of a value that is, exactly or as a   *)
(* double, within one unit in the last place of a half: there a result of  *)
(* rgbToHsl or hslToRgb may differ by 1 from the engine's.                 *)
(***************************************************************************)
EXTENDS Integers, Sequences, FiniteSets, TLC

(***************************************************************************)
(* JavaScript numbers                                                      *)
(***************************************************************************)
NaN == <<0, 0>>

IsNaN(q) == q[2] = 0

Abs(i) == IF i < 0 THEN -i ELSE i

RECURSIVE GCD(_, _)
GCD(a, b) == IF b = 0 THEN a ELSE GCD(b, a % b)

\* The rational n/d (d # 0) in lowest terms with a positive denominator.
Rat(n, d) ==
    LET g == GCD(Abs(n), Abs(d))
        s == IF d < 0 THEN -1 ELSE 1
    IN  <<s * (n \div g), s * (d \div g)>>

Num(i) == <<i, 1>>

Add(p, q) ==
    IF IsNaN(p) \/ IsNaN(q) THEN NaN
    ELSE LET g == GCD(p[2], q[2])
         IN  Rat(p[1] * (q[2] \div g) + q[1] * (p[2] \div g), (p[2] \div g) * q[2])

Neg(p) == IF IsNaN(p) THEN NaN ELSE <<-p[1], p[2]>>

Sub(p, q) == Add(p, Neg(q))

Mul(p, q) ==
    IF IsNaN(p) \/ IsNaN(q) THEN NaN
    ELSE LET g1 == GCD(Abs(p[1]), q[2])
             g2 == GCD(Abs(q[1]), p[2])
         IN  <<(p[1] \div g1) * (q[1] \div g2), (p[2] \div g2) * (q[2] \div g1)>>

\* p / q; the code never divides by zero (0/0 would be NaN as well).
Div(p, q) ==
    IF IsNaN(p) \/ IsNaN(q) \/ q[1] = 0 THEN NaN
    ELSE Mul(p, IF q[1] < 0 THEN <<-q[2], -q[1]>> ELSE <<q[2], q[1]>>)

\* Comparisons with NaN are false.
Lt(p, q) == ~IsNaN(p) /\ ~IsNaN(q) /\ p[1] * q[2] < q[1] * p[2]

Le(p, q) == ~IsNaN(p) /\ ~IsNaN(q) /\ p[1] * q[2] <= q[1] * p[2]

\* Math.abs
MathAbs(p) == IF IsNaN(p) THEN NaN ELSE <<Abs(p[1]), p[2]>>

\* Math.max and Math.min: NaN if either argument is NaN.
MathMax(p, q) == IF IsNaN(p) \/ IsNaN(q) THEN NaN ELSE IF Lt(p, q) THEN q ELSE p

MathMin(p, q) == IF IsNaN(p) \/ IsNaN(q) THEN NaN ELSE IF Lt(q, p) THEN q ELSE p

\* Math.floor, as an integer (p not NaN).
Floor(p) == p[1] \div p[2]

\* Math.round: the nearest integer, ties towards +Infinity; NaN stays NaN.
MathRound(p) == IF IsNaN(p) THEN NaN ELSE Num(Floor(Add(p, <<1, 2>>)))

\* The JavaScript % operator: the remainder has the sign of the dividend.
Rem(p, q) ==
    IF IsNaN(p) \/ IsNaN(q) \/ q[1] = 0 THEN NaN
    ELSE LET t == Floor(Div(MathAbs(p), MathAbs(q)))
             k == IF p[1] < 0 THEN -t ELSE t
         IN  Sub(p, Mul(Num(k), MathAbs(q)))

\* The === operator on numbers: NaN equals nothing, itself included.
StrictEq(p, q) == ~IsNaN(p) /\ ~IsNaN(q) /\ p = q

(***************************************************************************)
(* JavaScript values that may stand where a number is expected: a record   *)
(* field that is absent (undefined), a number, or a string.                *)
(***************************************************************************)
Undefined == [t |-> "undefined", n |-> NaN, s |-> <<>>]

JNum(q) == [t |-> "number", n |-> q, s |-> <<>>]

JStr(str) == [t |-> "string", n |-> NaN, s |-> str]

(***************************************************************************)
(* Utilities                                                               *)
(***************************************************************************)
\* clamp01(value) = Math.min(1, Math.max(0, value))
clamp01(value) == MathMin(Num(1), MathMax(Num(0), value))

\* The tail of hslToRgb: the sextant of h picks the triple, then each
\* channel is Math.round((channel + m) * 255).
HslSextant(h, c, x, m) ==
    LET rgb == IF Lt(h, Num(60)) THEN <<c, x, Num(0)>>
               ELSE IF Lt(h, Num(120)) THEN <<x, c, Num(0)>>
               ELSE IF Lt(h, Num(180)) THEN <<Num(0), c, x>>
               ELSE IF Lt(h, Num(240)) THEN <<Num(0), x, c>>
               ELSE IF Lt(h, Num(300)) THEN <<x, Num(0), c>>
               ELSE <<c, Num(0), x>>
    IN  [i \in 1..3 |-> MathRound(Mul(Add(rgb[i], m), Num(255)))]

\* hslToRgb once c is known: x = c * (1 - |(h / 60) % 2 - 1|), m = l - c / 2.
HslChroma(h, l, c) ==
    HslSextant(h, c,
               Mul(c, Sub(Num(1), MathAbs(Sub(Rem(Div(h, Num(60)), Num(2)), Num(1))))),
               Sub(l, Div(c, Num(2))))

\* hslToRgb once h is wrapped and s, l are fractions:
\* c = (1 - |2 * l - 1|) * s.
HslWrapped(h, s, l) ==
    HslChroma(h, l, Mul(Sub(Num(1), MathAbs(Sub(Mul(Num(2), l), Num(1)))), s))

\* hslToRgb as it would be if it took s and l for fractions already.
hslToRgbOfFractions(h, s, l) ==
    HslWrapped(Rem(Add(Rem(h, Num(360)), Num(360)), Num(360)), clamp01(s), clamp01(l))

\* hslToRgb(h, s, l): the byte triple <<r, g, b>>.
hslToRgb(h, s, l) ==
    HslWrapped(Rem(Add(Rem(h, Num(360)), Num(360)), Num(360)),
               clamp01(Div(s, Num(100))),
               clamp01(Div(l, Num(100))))

\* The hue of rgbToHsl, in degrees, before it is rounded.
RgbHue(r, g, b, max, delta) ==
    LET h == IF StrictEq(max, r) THEN Rem(Div(Sub(g, b), delta), Num(6))
             ELSE IF StrictEq(max, g) THEN Add(Div(Sub(b, r), delta), Num(2))
             ELSE Add(Div(Sub(r, g), delta), Num(4))
        h60 == Mul(h, Num(60))
    IN  IF StrictEq(delta, Num(0)) THEN Num(0)
        ELSE IF Lt(h60, Num(0)) THEN Add(h60, Num(360)) ELSE h60

\* The tail of rgbToHsl: s = delta === 0 ? 0 : delta / (1 - |2 * l - 1|),
\* and the three results rounded.
RgbRounded(h, delta, l) ==
    <<MathRound(h),
      MathRound(Mul(IF StrictEq(delta, Num(0)) THEN Num(0)
                    ELSE Div(delta, Sub(Num(1), MathAbs(Sub(Mul(Num(2), l), Num(1))))),
                    Num(100))),
      MathRound(Mul(l, Num(100)))>>

\* rgbToHsl once max and min are known: delta = max - min, l = (max + min) / 2.
RgbRange(r, g, b, max, min) ==
    RgbRounded(RgbHue(r, g, b, max, Sub(max, min)), Sub(max, min),
               Div(Add(max, min), Num(2)))

\* rgbToHsl once r, g, b are divided by 255 and clamped.
RgbUnit(r, g, b) ==
    RgbRange(r, g, b, MathMax(MathMax(r, g), b), MathMin(MathMin(r, g), b))

\* rgbToHsl(r, g, b): the triple <<h, s, l>>, each rounded to an integer.
rgbToHsl(r, g, b) ==
    RgbUnit(clamp01(Div(r, Num(255))), clamp01(Div(g, Num(255))),
            clamp01(Div(b, Num(255))))

(***************************************************************************)
(* Strings: sequences of one-character strings.                            *)
(***************************************************************************)
DecDigits == <<"0", "1", "2", "3", "4", "5", "6", "7", "8", "9">>

HexDigits == DecDigits \o <<"a", "b", "c", "d", "e", "f">>

UpperLetters == <<"A", "B", "C", "D", "E", "F", "G", "H", "L", "R", "S", "X">>

LowerLetters == <<"a", "b", "c", "d", "e", "f", "g", "h", "l", "r", "s", "x">>

Range(f) == {f[i] : i \in DOMAIN f}

IndexIn(c, alphabet) == CHOOSE i \in DOMAIN alphabet : alphabet[i] = c

DigitVal(c) == IndexIn(c, DecDigits) - 1

LowerChar(c) ==
    IF c \in Range(UpperLetters) THEN LowerLetters[IndexIn(c, UpperLetters)] ELSE c

HexDigitChars == Range(HexDigits) \cup {"A", "B", "C", "D", "E", "F"}

HexVal(c) == IndexIn(LowerChar(c), HexDigits) - 1

IsSpace(c) == c = " "

\* String.prototype.toLowerCase
toLowerCase(str) == [i \in 1..Len(str) |-> LowerChar(str[i])]

RECURSIVE TrimStart(_)
TrimStart(str) ==
    IF str # <<>> /\ IsSpace(Head(str)) THEN TrimStart(Tail(str)) ELSE str

RECURSIVE TrimEnd(_)
TrimEnd(str) ==
    IF str # <<>> /\ IsSpace(str[Len(str)])
    THEN TrimEnd(SubSeq(str, 1, Len(str) - 1)) ELSE str

\* String.prototype.trim
trim(str) == TrimEnd(TrimStart(str))

\* String.prototype.startsWith
startsWith(str, prefix) ==
    Len(str) >= Len(prefix) /\ SubSeq(str, 1, Len(prefix)) = prefix

\* str.replace(c, ''): the first occurrence of the character c is removed.
RECURSIVE replaceFirst(_, _)
replaceFirst(str, c) ==
    IF str = <<>> THEN <<>>
    ELSE IF Head(str) = c THEN Tail(str)
    ELSE <<Head(str)>> \o replaceFirst(Tail(str), c)

\* The longest prefix of str made of characters of the set chars.
RECURSIVE TakeWhile(_, _)
TakeWhile(str, chars) ==
    IF str # <<>> /\ Head(str) \in chars
    THEN <<Head(str)>> \o TakeWhile(Tail(str), chars) ELSE <<>>

\* The longest prefix of str that does not contain the character stop.
RECURSIVE TakeUntil(_, _)
TakeUntil(str, stop) ==
    IF str # <<>> /\ Head(str) # stop
    THEN <<Head(str)>> \o TakeUntil(Tail(str), stop) ELSE <<>>

Drop(str, k) == SubSeq(str, k + 1, Len(str))

\* The value of a digit string in the given base.
RECURSIVE DigitsValue(_, _, _)
DigitsValue(digits, base, acc) ==
    IF digits = <<>> THEN acc
    ELSE DigitsValue(Tail(digits), base, acc * base + HexVal(Head(digits)))

RECURSIVE Pow(_, _)
Pow(base, k) == IF k = 0 THEN 1 ELSE base * Pow(base, k - 1)

\* parseInt(str, 16): leading white space, an optional sign, an optional 0x,
\* then the longest run of hexadecimal digits; NaN if that run is empty.
parseInt16(str) ==
    LET s1 == TrimStart(str)
        neg == s1 # <<>> /\ Head(s1) = "-"
        s2 == IF s1 # <<>> /\ Head(s1) \in {"-", "+"} THEN Tail(s1) ELSE s1
        s3 == IF startsWith(toLowerCase(s2), <<"0", "x">>) THEN Drop(s2, 2) ELSE s2
        digits == TakeWhile(s3, HexDigitChars)
    IN  IF digits = <<>> THEN NaN
        ELSE Num((IF neg THEN -1 ELSE 1) * DigitsValue(digits, 16, 0))

\* parseFloat(str): leading white space, an optional sign, digits with an
\* optional fraction (exponents and Infinity do not occur in the inputs);
\* what follows is ignored; NaN if no digit is found.
parseFloat(str) ==
    LET s1 == TrimStart(str)
        neg == s1 # <<>> /\ Head(s1) = "-"
        s2 == IF s1 # <<>> /\ Head(s1) \in {"-", "+"} THEN Tail(s1) ELSE s1
        ip == TakeWhile(s2, Range(DecDigits))
        s3 == Drop(s2, Len(ip))
        fp == IF s3 # <<>> /\ Head(s3) = "." THEN TakeWhile(Tail(s3), Range(DecDigits)) ELSE <<>>
        mag == Add(Num(DigitsValue(ip, 10, 0)),
                   Rat(DigitsValue(fp, 10, 0), Pow(10, Len(fp))))
    IN  IF ip = <<>> /\ fp = <<>> THEN NaN
        ELSE IF neg THEN Neg(mag) ELSE mag

\* str.match(/<name>a?\(([^)]+)\)/) tried at the start of str: the captured
\* group, or <<>> when the pattern does not match there (a match never
\* captures the empty string).
MatchHere(str, name) ==
    LET afterName == Drop(str, Len(name))
        withA == IF afterName # <<>> /\ Head(afterName) = "a" /\
                     Len(afterName) >= 2 /\ afterName[2] = "("
                 THEN Drop(afterName, 2)
                 ELSE IF afterName # <<>> /\ Head(afterName) = "("
                 THEN Tail(afterName) ELSE <<>>
        opened == startsWith(str, name) /\ afterName # <<>> /\
                  (Head(afterName) = "(" \/
                     (Head(afterName) = "a" /\ Len(afterName) >= 2 /\ afterName[2] = "("))
        group == TakeUntil(withA, ")")
    IN  IF opened /\ group # <<>> /\ Len(withA) > Len(group) THEN group ELSE <<>>

\* The first match of the pattern anywhere in str: its group, or <<>>.
RECURSIVE MatchCall(_, _)
MatchCall(str, name) ==
    IF str = <<>> THEN <<>>
    ELSE IF MatchHere(str, name) # <<>> THEN MatchHere(str, name)
    ELSE MatchCall(Tail(str), name)

\* str.split(',')
RECURSIVE split(_)
split(str) ==
    LET first == TakeUntil(str, ",")
    IN  IF Len(first) = Len(str) THEN <<first>>
        ELSE <<first>> \o split(Drop(str, Len(first) + 1))

\* Number.prototype.toString(radix) of a non-negative integer.
RECURSIVE IntToString(_, _)
IntToString(i, radix) ==
    IF i < radix THEN <<HexDigits[i + 1]>>
    ELSE IntToString(i \div radix, radix) \o <<HexDigits[(i % radix) + 1]>>

\* String(q) for a number the code has rounded: an integer or NaN.
NumberToString(q, radix) ==
    IF IsNaN(q) THEN <<"N", "a", "N">>
    ELSE IF q[1] < 0 THEN <<"-">> \o IntToString(-q[1], radix)
    ELSE IntToString(q[1], radix)

\* String.prototype.padStart(2, '0')
padStart2(str) == IF Len(str) < 2 THEN <<"0">> \o str ELSE str

\* Number.prototype.toFixed(3) of a number in [0, 1] or NaN.
toFixed3(q) ==
    IF IsNaN(q) THEN <<"N", "a", "N">>
    ELSE LET n == MathRound(Mul(q, Num(1000)))[1]
             frac == IntToString(n % 1000, 10)
         IN  IntToString(n \div 1000, 10) \o <<".">> \o
             (IF Len(frac) = 1 THEN <<"0", "0">> ELSE IF Len(frac) = 2 THEN <<"0">> ELSE <<>>)
             \o frac

(***************************************************************************)
(* Decoders.  A decoder yields the stored channels <<r, g, b, a>> or the   *)
(* message of the Error it throws.                                         *)
(***************************************************************************)
Stored(chan) == [ok |-> TRUE, err |-> "", chan |-> chan]

Throw(msg) == [ok |-> FALSE, err |-> msg, chan |-> <<>>]

\* typeof v === 'number' ? v : NaN (undefined / 255 is NaN)
ToNumber(v) == IF v.t = "number" THEN v.n ELSE NaN

\* normalizeAlpha(alpha): its declaration takes one parameter, so the scale
\* the callers pass as a second argument is dropped.
normalizeAlpha(alpha) ==
    LET parsed == IF alpha.t = "string" THEN parseFloat(alpha.s) ELSE ToNumber(alpha)
    IN  IF IsNaN(parsed) THEN Num(1) ELSE clamp01(parsed)

\* #setRGBAf(r, g, b, a)
setRGBAf(r, g, b, a) == Stored(<<clamp01(r), clamp01(g), clamp01(b), clamp01(a)>>)

\* #setInteger(value): >> and & work on ToInt32(value), NaN counting as 0.
setInteger(value) ==
    LET v == IF IsNaN(value) THEN 0
             ELSE IF value[1] < 0 THEN -((-value[1]) \div value[2])
             ELSE value[1] \div value[2]
        r == (v \div 65536) % 256
        g == (v \div 256) % 256
        b == v % 256
    IN  setRGBAf(Div(Num(r), Num(255)), Div(Num(g), Num(255)), Div(Num(b), Num(255)), Num(1))

\* #setFloatVector(arr): const [r, g, b, a = 1] = arr
setFloatVector(arr) ==
    setRGBAf(arr[1].n, arr[2].n, arr[3].n,
             IF Len(arr) >= 4 /\ arr[4].t # "undefined" THEN arr[4].n ELSE Num(1))

\* #setRGBA(r, g, b, a)
setRGBA(r, g, b, a) ==
    setRGBAf(Div(r, Num(255)), Div(g, Num(255)), Div(b, Num(255)), Div(a, Num(255)))

\* #setHSL(h, s, l, a)
StoreTriple(rgb, a) == setRGBAf(rgb[1], rgb[2], rgb[3], a)

setHSL(h, s, l, a) == StoreTriple(hslToRgb(h, s, l), a)

\* #setHex(hex)
HexDigitsToRGBA(clean) ==
        IF Len(clean) = 3
        THEN setRGBA(parseInt16(<<clean[1], clean[1]>>),
                     parseInt16(<<clean[2], clean[2]>>),
                     parseInt16(<<clean[3], clean[3]>>), Num(255))
        ELSE IF Len(clean) = 6
        THEN setRGBA(parseInt16(SubSeq(clean, 1, 2)),
                     parseInt16(SubSeq(clean, 3, 4)),
                     parseInt16(SubSeq(clean, 5, 6)), Num(255))
        ELSE Throw("Invalid hex format")

setHex(hex) == HexDigitsToRGBA(replaceFirst(hex, "#"))

\* parseFloat(parts[i].trim()) of the split list: a missing part is
\* undefined, which is NaN in arithmetic and for parseFloat.
PartFloat(parts, i) == IF i <= Len(parts) THEN parseFloat(trim(parts[i])) ELSE NaN

\* The rest of #setCSSRGB once the parenthesised list is split:
\* const [r, g, b, a = 1] = parts
RgbParts(parts) ==
    setRGBAf(Div(PartFloat(parts, 1), Num(255)),
             Div(PartFloat(parts, 2), Num(255)),
             Div(PartFloat(parts, 3), Num(255)),
             IF Len(parts) >= 4 THEN PartFloat(parts, 4) ELSE Num(1))

RgbGroup(group) ==
    IF group = <<>> THEN Throw("Invalid CSS RGB format") ELSE RgbParts(split(group))

\* #setCSSRGB(str)
setCSSRGB(str) == RgbGroup(MatchCall(str, <<"r", "g", "b">>))

\* The rest of #setCSSHSL once the parenthesised list is split.
HslParts(parts) ==
    setHSL(PartFloat(parts, 1),
           Div(PartFloat(parts, 2), Num(100)),
           Div(PartFloat(parts, 3), Num(100)),
           IF Len(parts) >= 4 THEN PartFloat(parts, 4) ELSE Num(1))

HslGroup(group) ==
    IF group = <<>> THEN Throw("Invalid CSS HSL format") ELSE HslParts(split(group))

\* #setCSSHSL(str)
setCSSHSL(str) == HslGroup(MatchCall(str, <<"h", "s", "l">>))

\* What a canvas 2D context reads back from fillStyle after it was assigned
\* the name: the colour as '#rrggbb' for a colour keyword it knows, and the
\* untouched default '#000000' for anything else.
CanvasFillStyle(name) ==
    IF name = <<"r", "e", "d">> THEN <<"#", "f", "f", "0", "0", "0", "0">>
    ELSE IF name = <<"w", "h", "i", "t", "e">> THEN <<"#", "f", "f", "f", "f", "f", "f">>
    ELSE <<"#", "0", "0", "0", "0", "0", "0">>

\* #setNamed(name)
NamedComputed(name, computed) ==
    IF computed = <<>> \/
       (computed = <<"#", "0", "0", "0", "0", "0", "0">> /\
        name # <<"b", "l", "a", "c", "k">>)
    THEN Throw("Unknown named color")
    ELSE setHex(computed)

setNamed(name) == NamedComputed(name, CanvasFillStyle(name))

\* obj[key], undefined when the object has no such key.
Get(obj, key) == IF key \in DOMAIN obj THEN obj[key] ELSE Undefined

\* The string branch of #setFrom, on input.trim().toLowerCase().
FromString(trimmed) ==
    IF startsWith(trimmed, <<"#">>) THEN setHex(trimmed)
    ELSE IF startsWith(trimmed, <<"r", "g", "b">>) THEN setCSSRGB(trimmed)
    ELSE IF startsWith(trimmed, <<"h", "s", "l">>) THEN setCSSHSL(trimmed)
    ELSE setNamed(trimmed)

\* The object branch of #setFrom.
FromObject(obj) ==
    IF {"r", "g", "b"} \subseteq DOMAIN obj
    THEN setRGBA(ToNumber(obj.r), ToNumber(obj.g), ToNumber(obj.b),
                 normalizeAlpha(Get(obj, "a")))
    ELSE IF {"h", "s", "l"} \subseteq DOMAIN obj
    THEN setHSL(ToNumber(obj.h), ToNumber(obj.s), ToNumber(obj.l),
                normalizeAlpha(Get(obj, "a")))
    ELSE Throw("Unsupported color format")

\* #setFrom(input)
setFrom(input) ==
    IF input.kind = "string" THEN FromString(toLowerCase(trim(input.str)))
    ELSE IF input.kind = "number" THEN setInteger(input.num)
    ELSE IF input.kind = "array" /\ Len(input.arr) >= 3 /\
            \A i \in 1..Len(input.arr) : input.arr[i].t = "number"
    THEN setFloatVector(input.arr)
    ELSE IF input.kind = "object" THEN FromObject(input.obj)
    ELSE Throw("Unsupported color format")

\* constructor(input): input ?? { r: 0, g: 0, b: 0, a: 1 }
construct(input) ==
    setFrom(IF input.kind \in {"undefined", "null"}
            THEN [kind |-> "object",
                  obj |-> [r |-> JNum(Num(0)), g |-> JNum(Num(0)),
                           b |-> JNum(Num(0)), a |-> JNum(Num(1))]]
            ELSE input)

(***************************************************************************)
(* Encoders, as functions of the stored channels this = <<r, g, b, a>>.    *)
(***************************************************************************)
\* Math.round(channel * 255)
Byte(channel) == MathRound(Mul(channel, Num(255)))

\* ToInt32 of a rounded channel: NaN counts as 0.
ToInt32(q) == IF IsNaN(q) THEN 0 ELSE q[1]

\* Integer(): the three bytes lie in 0..255, so << and | amount to a sum.
IntegerOf(this) ==
    ToInt32(Byte(this[1])) * 65536 + ToInt32(Byte(this[2])) * 256 + ToInt32(Byte(this[3]))

\* Hex() as it would be without padStart(2, '0').
HexOfUnpadded(this) ==
    <<"#">> \o NumberToString(Byte(this[1]), 16) \o NumberToString(Byte(this[2]), 16)
            \o NumberToString(Byte(this[3]), 16)

\* Hex()
HexOf(this) ==
    <<"#">> \o padStart2(NumberToString(Byte(this[1]), 16))
            \o padStart2(NumberToString(Byte(this[2]), 16))
            \o padStart2(NumberToString(Byte(this[3]), 16))

Sep == <<",", " ">>

\* The template strings of CSSRGB() and CSSHSL(), alpha included when a < 1.
CssRgbText(r, g, b, a) ==
    IF Lt(a, Num(1))
    THEN <<"r", "g", "b", "a", "(">> \o r \o Sep \o g \o Sep \o b \o Sep
         \o toFixed3(a) \o <<")">>
    ELSE <<"r", "g", "b", "(">> \o r \o Sep \o g \o Sep \o b \o <<")">>

CssHslText(hStr, sStr, lStr, a) ==
    IF Lt(a, Num(1))
    THEN <<"h", "s", "l", "a", "(">> \o hStr \o Sep \o sStr \o <<"%">> \o Sep
         \o lStr \o <<"%">> \o Sep \o toFixed3(a) \o <<")">>
    ELSE <<"h", "s", "l", "(">> \o hStr \o Sep \o sStr \o <<"%">> \o Sep
         \o lStr \o <<"%">> \o <<")">>

\* CSSRGB()
CSSRGBOf(this) ==
    CssRgbText(NumberToString(Byte(this[1]), 10), NumberToString(Byte(this[2]), 10),
               NumberToString(Byte(this[3]), 10), this[4])

\* The rest of CSSHSL() once rgbToHsl has returned { h, s, l }:
\* hStr = Math.round(h), sStr = Math.round(s * 100), lStr = Math.round(l * 100).
CssHslOfHsl(hsl, a) ==
    CssHslText(NumberToString(MathRound(hsl[1]), 10),
               NumberToString(MathRound(Mul(hsl[2], Num(100))), 10),
               NumberToString(MathRound(Mul(hsl[3], Num(100))), 10), a)

\* CSSHSL()
CSSHSLOf(this) == CssHslOfHsl(rgbToHsl(this[1], this[2], this[3]), this[4])

\* FloatVector()
FloatVectorOf(this) == <<this[1], this[2], this[3], this[4]>>

\* RGBA()
RGBAOf(this) ==
    [r |-> Byte(this[1]), g |-> Byte(this[2]), b |-> Byte(this[3]), a |-> Byte(this[4])]

\* HSL()
HslRecord(hsl, a) == [h |-> hsl[1], s |-> hsl[2], l |-> hsl[3], a |-> a]

HSLOf(this) == HslRecord(rgbToHsl(this[1], this[2], this[3]), this[4])

(***************************************************************************)
(* Constructor arguments                                                   *)
(***************************************************************************)
StrIn(str) == [kind |-> "string", str |-> str]

NumIn(q) == [kind |-> "number", num |-> q]

ArrIn(arr) == [kind |-> "array", arr |-> arr]

ObjIn(obj) == [kind |-> "object", obj |-> obj]

\* name(a, b, c) and name(a, b, c, d) as the strings a caller would write.
RECURSIVE Join(_)
Join(args) ==
    IF Len(args) = 1 THEN Head(args) ELSE Head(args) \o Sep \o Join(Tail(args))

CssCall(name, args) == name \o <<"(">> \o Join(args) \o <<")">>

Dec(i) == IntToString(i, 10)

Pct(i) == IntToString(i, 10) \o <<"%">>

\* '#rrggbb' for a byte triple, as 2-digit lowercase hex.
FormatHex(r, g, b) ==
    <<"#">> \o padStart2(IntToString(r, 16)) \o padStart2(IntToString(g, 16))
            \o padStart2(IntToString(b, 16))

HexStrings ==
    { <<"#", "f", "f", "f">>, <<"#", "F", "F", "F">>, <<" ", "#", "a", "b", "c", " ">>,
      <<"#", "f", "f", "0", "0", "0", "0">>, <<"#", "1", "2", "3", "4", "5", "6">>,
      <<"#", "0", "9", "A", "f", "C", "e">>,
      <<"#", "g", "g", "g">>, <<"#", "1", "g", "2">>, <<"#", "f", "f", "0", "0", "z", "z">>,
      <<"#", "-", "1", "-", "1", "-", "1">>, <<"#", "#", "f", "f", "f">>,
      <<"#">>, <<"#", "1", "2">>, <<"#", "1", "2", "3", "4">>,
      <<"#", "1", "2", "3", "4", "5", "6", "7", "8">> }

HalfAlpha == <<"0", ".", "5">>

CssRgbStrings ==
    { CssCall(<<"r", "g", "b", "a">>, <<Dec(255), Dec(0), Dec(0), HalfAlpha>>),
      CssCall(<<"r", "g", "b">>, <<Dec(255), Dec(0), Dec(0)>>),
      CssCall(<<"r", "g", "b">>, <<Dec(300), <<"-", "5">>, Dec(128)>>),
      CssCall(<<"R", "G", "B">>, <<Dec(18), Dec(52), Dec(86)>>),
      CssCall(<<"r", "g", "b", "a">>, <<Dec(0), Dec(128), Dec(255), Dec(2)>>),
      CssCall(<<"r", "g", "b">>, <<<<"x">>, Dec(0), Dec(0)>>),
      CssCall(<<"r", "g", "b", "a">>, <<Dec(1), Dec(2), Dec(3), <<"x">>>>),
      CssCall(<<"r", "g", "b">>, <<Dec(1), Dec(2)>>),
      <<"r", "g", "b">>, <<"r", "g", "b", "(", ")">>, <<"r", "g", "b", "(", "1", ",", "2">> }

CssHslHues == {0, 120, 210}

CssHslPercents == {0, 50, 100}

CssHslStrings ==
    { CssCall(<<"h", "s", "l">>, <<Dec(h), Pct(s), Pct(l)>>) :
        h \in CssHslHues, s \in CssHslPercents, l \in CssHslPercents }
    \cup
    { CssCall(<<"h", "s", "l", "a">>, <<Dec(120), Pct(50), Pct(25), HalfAlpha>>),
      CssCall(<<"h", "s", "l">>, <<<<"x">>, Pct(1), Pct(2)>>),
      CssCall(<<"h", "s", "l">>, <<Dec(0)>>),
      <<"h", "s", "l">>, <<"h", "s", "l", "a", "(", ")">> }

NamedStrings ==
    { <<"r", "e", "d">>, <<"R", "e", "d">>, <<"w", "h", "i", "t", "e">>,
      <<"b", "l", "a", "c", "k">>, <<"n", "o", "t", "a", "c", "o", "l", "o", "r">> }

Numbers == { Num(0), Num(16711680), Num(16777215), Num(1193046), Num(-1),
             Num(16777216 + 5), <<3, 2>>, NaN }

Arrays ==
    { <<JNum(Num(1)), JNum(Num(0)), JNum(Num(0))>>,
      <<JNum(<<1, 2>>), JNum(<<1, 4>>), JNum(<<3, 4>>), JNum(<<1, 2>>)>>,
      <<JNum(Num(2)), JNum(Num(-1)), JNum(<<1, 5>>), JNum(Num(3))>>,
      <<JNum(Num(0)), JNum(Num(1)), JNum(Num(0)), Undefined>>,
      <<JNum(NaN), JNum(Num(0)), JNum(Num(0))>>,
      <<JNum(Num(1)), JNum(Num(0))>>,
      <<JNum(Num(1)), JNum(Num(0)), JStr(<<"1">>)>> }

RgbBytes == { <<255, 0, 0>>, <<10, 300, 128>>, <<0, -20, 64>> }

RgbAlphas == { Undefined, JNum(Num(255)), JNum(Num(128)), JNum(Num(0)), JNum(Num(1)),
               JNum(<<1, 2>>), JNum(Num(300)), JNum(NaN),
               JStr(<<"1", "2", "8">>), JStr(<<"x">>) }

RgbRecords ==
    { [r |-> JNum(Num(c[1])), g |-> JNum(Num(c[2])), b |-> JNum(Num(c[3]))] : c \in RgbBytes }
    \cup
    { [r |-> JNum(Num(c[1])), g |-> JNum(Num(c[2])), b |-> JNum(Num(c[3])), a |-> al] :
        c \in RgbBytes, al \in RgbAlphas }

HslHues == {0, 30, 120, 210, 720, -30}

HslSats == {0, 50, 100, 150}

HslLights == {0, 25, 50, 100}

HslRecords ==
    { [h |-> JNum(Num(h)), s |-> JNum(Num(s)), l |-> JNum(Num(l))] :
        h \in HslHues, s \in HslSats, l \in HslLights }
    \cup
    { [h |-> JNum(Num(120)), s |-> JNum(Num(50)), l |-> JNum(Num(25)), a |-> JNum(<<1, 2>>)],
      [h |-> JNum(NaN), s |-> JNum(Num(50)), l |-> JNum(Num(50))] }

OtherRecords ==
    { [x |-> JNum(Num(1))], [r |-> JNum(Num(1)), g |-> JNum(Num(2))],
      [r |-> JNum(Num(255)), g |-> JNum(Num(255)), b |-> JNum(Num(255)),
       h |-> JNum(Num(0)), s |-> JNum(Num(0)), l |-> JNum(Num(0))] }

Inputs ==
    { [kind |-> "undefined"], [kind |-> "null"], [kind |-> "boolean"] }
    \cup { StrIn(str) : str \in HexStrings \cup CssRgbStrings \cup CssHslStrings \cup NamedStrings }
    \cup { NumIn(q) : q \in Numbers }
    \cup { ArrIn(arr) : arr \in Arrays }
    \cup { ObjIn(obj) : obj \in RgbRecords \cup HslRecords \cup OtherRecords }

(***************************************************************************)
(* The life of one ColorValue: new ColorValue(input), then any calls of    *)
(* its getters.                                                            *)
(***************************************************************************)
VARIABLES
    input,   \* the constructor's argument
    phase,   \* "new": not constructed yet; "ok": constructed; "failed": it threw
    error,   \* the message of the Error the constructor threw, or ""
    this,    \* the instance's fields <<r, g, b, a>>; <<>> while there is no instance
    first,   \* per getter: whether it was called, and what its first call returned
    ret,     \* the getter called last and what that call returned
    ncalls,  \* the number of getter calls so far
    conv     \* a byte triple under test, outside any instance: formatted as a
             \* hex string (SpecHex), or converted to HSL and back (SpecMath)

vars == <<input, phase, error, this, first, ret, ncalls, conv>>

Encoders == {"Integer", "Hex", "CSSRGB", "CSSHSL", "FloatVector", "RGBA", "HSL"}

MaxCalls == 3

NoReturn == [enc |-> "none", val |-> <<>>]

NoConv == [pc |-> "idle", rgb |-> <<>>, hsl |-> <<>>, back |-> <<>>]

InitWith(inputs) ==
    /\ input \in inputs
    /\ phase = "new"
    /\ error = ""
    /\ this = <<>>
    /\ first = [e \in Encoders |-> [called |-> FALSE, val |-> <<>>]]
    /\ ret = NoReturn
    /\ ncalls = 0
    /\ conv = NoConv

Init == InitWith(Inputs)

\* new ColorValue(input)
Constructed(decoded) ==
    /\ phase' = IF decoded.ok THEN "ok" ELSE "failed"
    /\ error' = decoded.err
    /\ this' = decoded.chan

Construct ==
    /\ phase = "new"
    /\ Constructed(construct(input))
    /\ UNCHANGED <<input, first, ret, ncalls, conv>>

\* A call of the getter enc that returns val and leaves the fields as after.
Call(enc, val, after) ==
    /\ phase = "ok"
    /\ ncalls < MaxCalls
    /\ ncalls' = ncalls + 1
    /\ ret' = [enc |-> enc, val |-> val]
    /\ first' = IF first[enc].called THEN first
                ELSE [first EXCEPT ![enc] = [called |-> TRUE, val |-> val]]
    /\ this' = after
    /\ UNCHANGED <<input, phase, error, conv>>

Integer == Call("Integer", IntegerOf(this), this)

\* Hex() as it would be if it scaled the stored channels to bytes in place.
HexScalesInPlace ==
    Call("Hex", HexOf(this), <<Byte(this[1]), Byte(this[2]), Byte(this[3]), this[4]>>)

Hex == Call("Hex", HexOf(this), this)

CSSRGB == Call("CSSRGB", CSSRGBOf(this), this)

CSSHSL == Call("CSSHSL", CSSHSLOf(this), this)

FloatVector == Call("FloatVector", FloatVectorOf(this), this)

RGBA == Call("RGBA", RGBAOf(this), this)

HSL == Call("HSL", HSLOf(this), this)

Next ==
    \/ Construct
    \/ Integer
    \/ Hex
    \/ CSSRGB
    \/ CSSHSL
    \/ FloatVector
    \/ RGBA
    \/ HSL

Spec == Init /\ [][Next]_vars

(***************************************************************************)
(* Hex strings formatted from byte triples, decoded and re-encoded.        *)
(***************************************************************************)
NumLevels == 19

\* NumLevels bytes spread over 0..255, both ends included.
ByteLevels == {(k * 255) \div (NumLevels - 1) : k \in 0..(NumLevels - 1)}

Triples(bytes) == {<<r, g, b>> : r \in bytes, g \in bytes, b \in bytes}

InitHex ==
    /\ conv \in {[pc |-> "hex", rgb |-> t, hsl |-> <<>>, back |-> <<>>] : t \in Triples(ByteLevels)}
    /\ input = StrIn(FormatHex(conv.rgb[1], conv.rgb[2], conv.rgb[3]))
    /\ phase = "new"
    /\ error = ""
    /\ this = <<>>
    /\ first = [e \in Encoders |-> [called |-> FALSE, val |-> <<>>]]
    /\ ret = NoReturn
    /\ ncalls = 0

NextHex ==
    \/ Construct
    \/ Hex
    \/ RGBA

SpecHex == InitHex /\ [][NextHex]_vars

(***************************************************************************)
(* rgbToHsl and hslToRgb applied in turn to a byte triple.                 *)
(***************************************************************************)
\* The triples at which the round trip is furthest off.
FarTriples == {<<2, 228, 230>>, <<5, 213, 222>>}

InitMath ==
    /\ conv \in {[pc |-> "rgb", rgb |-> t, hsl |-> <<>>, back |-> <<>>] :
                   t \in Triples(ByteLevels) \cup FarTriples}
    /\ input = [kind |-> "undefined"]
    /\ phase = "new"
    /\ error = ""
    /\ this = <<>>
    /\ first = [e \in Encoders |-> [called |-> FALSE, val |-> <<>>]]
    /\ ret = NoReturn
    /\ ncalls = 0

\* hsl = rgbToHsl(r, g, b)
ToHsl ==
    /\ conv.pc = "rgb"
    /\ conv' = [conv EXCEPT !.pc = "hsl",
                            !.hsl = rgbToHsl(Num(conv.rgb[1]), Num(conv.rgb[2]), Num(conv.rgb[3]))]
    /\ UNCHANGED <<input, phase, error, this, first, ret, ncalls>>

\* back = hslToRgb(hsl.h, hsl.s, hsl.l)
ToRgb ==
    /\ conv.pc = "hsl"
    /\ conv' = [conv EXCEPT !.pc = "back",
                            !.back = hslToRgb(conv.hsl[1], conv.hsl[2], conv.hsl[3])]
    /\ UNCHANGED <<input, phase, error, this, first, ret, ncalls>>

NextMath ==
    \/ ToHsl
    \/ ToRgb

SpecMath == InitMath /\ [][NextMath]_vars

(***************************************************************************)
(* Properties                                                              *)
(***************************************************************************)
InUnitRange(q) == Le(Num(0), q) /\ Le(q, Num(1))

\* C1: after a construction that succeeded, each of the four stored
\* channels r, g, b, a is a number in the closed interval [0, 1].
C1_ChannelsInUnitRange ==
    phase = "ok" => \A i \in 1..4 : InUnitRange(this[i])

\* C2: constructing with an absent (undefined) or null input yields opaque
\* black: r = 0, g = 0, b = 0 and a = 1.
C2_AbsentIsOpaqueBlack ==
    (phase # "new" /\ input.kind \in {"undefined", "null"})
        => (phase = "ok" /\ this = <<Num(0), Num(0), Num(0), Num(1)>>)

IsRgbRecord == input.kind = "object" /\ {"r", "g", "b"} \subseteq DOMAIN input.obj

\* The alpha a structured record {r, g, b, a} is to store: clamp01(a / 255)
\* for a number or a numeric string, 1 when a is absent or not a number.
RecordAlpha(a) ==
    LET n == IF a.t = "string" THEN parseFloat(a.s) ELSE ToNumber(a)
    IN  IF IsNaN(n) THEN Num(1) ELSE clamp01(Div(n, Num(255)))

\* C3: a structured record {r, g, b, a} stores alpha clamp01(a / 255) for a
\* numeric (or numeric-string) a and alpha 1 when a is absent or no valid
\* number, and RGBA() returns a = 255 for a record with a = 255.
C3_RecordAlphaOver255 ==
    (phase = "ok" /\ IsRgbRecord) =>
        /\ this[4] = RecordAlpha(Get(input.obj, "a"))
        /\ (Get(input.obj, "a") = JNum(Num(255)) /\ first["RGBA"].called)
              => first["RGBA"].val.a = Num(255)

\* What CSSHSL() is to return for the stored channels: rgbToHsl of the
\* byte-scaled channels, 'hsl(h, s%, l%)' when a is 1 and
\* 'hsla(h, s%, l%, a)' with a to 3 decimals otherwise.
ExpectedCssHsl(chan) ==
    LET hsl == rgbToHsl(Byte(chan[1]), Byte(chan[2]), Byte(chan[3]))
        args == <<NumberToString(hsl[1], 10), NumberToString(hsl[2], 10) \o <<"%">>,
                  NumberToString(hsl[3], 10) \o <<"%">>>>
    IN  IF chan[4] = Num(1) THEN CssCall(<<"h", "s", "l">>, args)
        ELSE CssCall(<<"h", "s", "l", "a">>, args \o <<toFixed3(chan[4])>>)

RgbaHalfRed ==
    StrIn(CssCall(<<"r", "g", "b", "a">>, <<Dec(255), Dec(0), Dec(0), HalfAlpha>>))

\* C4: CSSHSL() returns the HSL of the byte-scaled stored channels, with h
\* in integer degrees and s, l integer percentages in 0..100, as
\* 'hsl(h, s%, l%)' when a is 1 and 'hsla(h, s%, l%, a)' otherwise;
\* 'rgba(255, 0, 0, 0.5)' gives 'hsla(0, 100%, 50%, 0.500)'.
C4_CssHslOfByteScaledChannels ==
    (phase = "ok" /\ first["CSSHSL"].called) =>
        /\ first["CSSHSL"].val = ExpectedCssHsl(this)
        /\ input = RgbaHalfRed =>
             first["CSSHSL"].val =
                CssCall(<<"h", "s", "l", "a">>, <<Dec(0), Pct(100), Pct(50), <<"0", ".", "5", "0", "0">>>>)

IsHslRecord ==
    /\ input.kind = "object"
    /\ {"h", "s", "l"} \subseteq DOMAIN input.obj
    /\ ~({"r", "g", "b"} \subseteq DOMAIN input.obj)

PercentInRange(v) == Le(Num(0), ToNumber(v)) /\ Le(ToNumber(v), Num(100))

RecordBytes(obj) == hslToRgb(ToNumber(obj.h), ToNumber(obj.s), ToNumber(obj.l))

\* C5: a structured record {h, s, l} with s and l in [0, 100] is re-emitted
\* by RGBA() and Hex() as the byte triple hslToRgb computes for (h, s, l).
C5_HslRecordBytes ==
    (phase = "ok" /\ IsHslRecord /\ ~IsNaN(ToNumber(input.obj.h))
       /\ PercentInRange(input.obj.s) /\ PercentInRange(input.obj.l)) =>
        /\ first["RGBA"].called =>
             <<first["RGBA"].val.r, first["RGBA"].val.g, first["RGBA"].val.b>>
                = RecordBytes(input.obj)
        /\ first["Hex"].called =>
             first["Hex"].val = FormatHex(RecordBytes(input.obj)[1][1],
                                          RecordBytes(input.obj)[2][1],
                                          RecordBytes(input.obj)[3][1])

HslRecordOf(h, s, l) == ObjIn([h |-> JNum(Num(h)), s |-> JNum(Num(s)), l |-> JNum(Num(l))])

\* C6: 'hsl(h, s%, l%)' stores the r, g, b that the structured record
\* {h, s, l} with the same numbers stores, and 'hsl(0, 100%, 50%)' decodes
\* to pure red, Hex() = '#ff0000'.
C6_CssHslAsRecord ==
    phase = "ok" =>
        \A h \in CssHslHues, s \in CssHslPercents, l \in CssHslPercents :
            input = StrIn(CssCall(<<"h", "s", "l">>, <<Dec(h), Pct(s), Pct(l)>>)) =>
                /\ SubSeq(this, 1, 3) = SubSeq(construct(HslRecordOf(h, s, l)).chan, 1, 3)
                /\ (h = 0 /\ s = 100 /\ l = 50 /\ first["Hex"].called)
                      => first["Hex"].val = <<"#", "f", "f", "0", "0", "0", "0">>

\* The text after the '#' of a string the dispatcher hands to the hex decoder.
AfterHash == Tail(toLowerCase(trim(input.str)))

IsHashString ==
    input.kind = "string" /\ startsWith(toLowerCase(trim(input.str)), <<"#">>)

AllHexDigits(str) == \A i \in 1..Len(str) : str[i] \in Range(HexDigits)

\* C7: constructing from a string that starts with '#' fails with the
\* invalid-hex error whenever the text after the '#' is not exactly 3 or
\* exactly 6 hexadecimal digits.
C7_BadHexIsRejected ==
    (phase # "new" /\ IsHashString
       /\ ~(Len(AfterHash) \in {3, 6} /\ AllHexDigits(AfterHash))) =>
        (phase = "failed" /\ error = "Invalid hex format")

Called == {e \in Encoders : first[e].called}

\* C8: the getters leave the four stored channels as the constructor set
\* them, and a repeated call of a getter returns what its first call returned.
C8_EncodersArePure ==
    phase = "ok" =>
        /\ this = construct(input).chan
        /\ ret.enc # "none" => (first[ret.enc].called /\ ret.val = first[ret.enc].val)

\* More calls than getters called, so that one was called again, on a colour
\* with a channel strictly between 0 and 1.
C8_Witness ==
    /\ phase = "ok"
    /\ ncalls = MaxCalls
    /\ Cardinality(Called) = MaxCalls - 1
    /\ ret.enc # "none" /\ ret.val = first[ret.enc].val
    /\ \E i \in 1..3 : Lt(Num(0), this[i]) /\ Lt(this[i], Num(1))

\* C9: the hex string '#rrggbb' of a byte triple decodes to the channels
\* (r/255, g/255, b/255, 1); Hex() returns the string and RGBA() returns
\* {r, g, b, a: 255}.
C9_HexRoundTrip ==
    (conv.pc = "hex" /\ phase # "new") =>
        /\ phase = "ok"
        /\ this = <<Rat(conv.rgb[1], 255), Rat(conv.rgb[2], 255), Rat(conv.rgb[3], 255), Num(1)>>
        /\ first["Hex"].called => first["Hex"].val = input.str
        /\ first["RGBA"].called =>
             first["RGBA"].val = [r |-> Num(conv.rgb[1]), g |-> Num(conv.rgb[2]),
                                  b |-> Num(conv.rgb[3]), a |-> Num(255)]

\* A triple with a one-digit byte and both kinds of hex digit went round.
C9_Witness ==
    /\ conv.pc = "hex"
    /\ conv.rgb = <<14, 170, 255>>
    /\ first["Hex"].called /\ first["Hex"].val = <<"#", "0", "e", "a", "a", "f", "f">>
    /\ first["RGBA"].called

\* The largest difference between the triple and what came back.
MaxError == 
    LET d(i) == Abs(conv.rgb[i] - conv.back[i][1])
    IN  CHOOSE m \in {d(1), d(2), d(3)} : \A i \in 1..3 : d(i) <= m

\* C10 as stated: hslToRgb(rgbToHsl(r, g, b)) is within 1 of (r, g, b) in
\* each channel.
C10_RoundTripWithinOne == conv.pc = "back" => MaxError <= 1

\* C10 as amended: rgbToHsl returns h in integer degrees and s, l in integer
\* percentages, and hslToRgb(rgbToHsl(r, g, b)) is within 5 of (r, g, b) in
\* each channel.
C10_RoundTripWithinFive ==
    /\ conv.pc \in {"hsl", "back"} =>
         /\ \A i \in 1..3 : conv.hsl[i][2] = 1
         /\ conv.hsl[1][1] \in 0..360
         /\ conv.hsl[2][1] \in 0..100 /\ conv.hsl[3][1] \in 0..100
    /\ conv.pc = "back" =>
         /\ \A i \in 1..3 : conv.back[i][2] = 1
         /\ MaxError <= 5

\* A round trip that is off by the full 5.
C10_Witness == conv.pc = "back" /\ MaxError = 5

=============================================================================
